---- MODULE Spec2Model ----
(***************************************************************************)
(* A model of the product scrapers (foreignfortune.py, traderjoes.py,      *)
(* lechocolat.py) and of the record validator (validation.py).             *)
(*                                                                         *)
(* Python values are encoded as follows.                                   *)
(*   str   : a sequence of one-character strings, "//c" is <<"/","/","c">> *)
(*   None  : the one-element sequence <<"None">> (no str contains a        *)
(*           several-character element, so it equals no str)               *)
(*   list  : a sequence                                                    *)
(*   dict  : a function from key names to values; a key that is absent is  *)
(*           outside its DOMAIN                                            *)
(***************************************************************************)
EXTENDS Integers, Sequences, FiniteSets, TLC

VARIABLES
    \* ---- one run of a site script (Spec) ----
    site,           \* the script that runs: "ff", "tj" or "lc"
    web,            \* what the web site serves during the run
    pc,             \* position of the script
    browser,        \* "none", "open" or "closed"
    closeCalls,     \* number of browser.close() calls made
    openTabs,       \* number of tabs opened with newPage() and not yet closed
    urlIdx,         \* index in start_urls of the URL being processed
    all_products,   \* the orchestrator's accumulator
    written,        \* the sequence of contents written to the output file
    drv,            \* the locals of the running pagination driver
    returned,       \* what the last finished driver call returned
    hist,           \* history: the driver calls made and what each fetched
    exc,            \* TRUE while an exception propagates
    \* ---- one application of an extractor (SpecExtract) ----
    ex_site,        \* the extractor applied
    ex_html,        \* the markup it is applied to
    ex_out,         \* the values it returned so far (none or one)
    \* ---- one use of a Validation object (SpecVal) ----
    products,       \* self.products
    v_pc,           \* "idle", "validating" or "done"
    v_next,         \* number of the next check validate() evaluates
    v_ran,          \* the checks run so far, in order
    v_diag,         \* the diagnostics printed so far, in order
    v_result        \* the values returned by the calls made so far

runVars == <<site, web, pc, browser, closeCalls, openTabs, urlIdx,
             all_products, written, drv, returned, hist, exc>>
exVars  == <<ex_site, ex_html, ex_out>>
valVars == <<products, v_pc, v_next, v_ran, v_diag, v_result>>
vars    == <<runVars, exVars, valVars>>

----------------------------------------------------------------------------
(* Python strings                                                          *)

None == <<"None">>
EmptyStr == <<>>

\* str.startswith(prefix)
StartsWith(s, p) ==
    /\ Len(s) >= Len(p)
    /\ \A i \in 1..Len(p) : s[i] = p[i]

\* s[1:]
DropFirst(s) == IF Len(s) = 0 THEN s ELSE SubSeq(s, 2, Len(s))

IsSpace(c) == c \in {" ", "\t", "\n"}

RECURSIVE LStrip(_)
LStrip(s) == IF Len(s) > 0 /\ IsSpace(s[1]) THEN LStrip(Tail(s)) ELSE s

RECURSIVE RStrip(_)
RStrip(s) ==
    IF Len(s) > 0 /\ IsSpace(s[Len(s)]) THEN RStrip(SubSeq(s, 1, Len(s) - 1)) ELSE s

\* str.strip()
Strip(s) == RStrip(LStrip(s))

\* str.replace(old, new), old non-empty: every occurrence, left to right
RECURSIVE Replace(_, _, _)
Replace(s, old, new) ==
    IF Len(s) = 0 THEN s
    ELSE IF StartsWith(s, old)
         THEN new \o Replace(SubSeq(s, Len(old) + 1, Len(s)), old, new)
         ELSE <<s[1]>> \o Replace(Tail(s), old, new)

UpperLetters == <<"A","B","C","D","E","F","G","H","I","J","K","L","M",
                  "N","O","P","Q","R","S","T","U","V","W","X","Y","Z">>
LowerLetters == <<"a","b","c","d","e","f","g","h","i","j","k","l","m",
                  "n","o","p","q","r","s","t","u","v","w","x","y","z">>

LowerChar(c) ==
    IF \E i \in 1..Len(UpperLetters) : UpperLetters[i] = c
    THEN LowerLetters[CHOOSE i \in 1..Len(UpperLetters) : UpperLetters[i] = c]
    ELSE c

\* str.lower()
Lower(s) == [i \in 1..Len(s) |-> LowerChar(s[i])]

\* truthiness of a str, a list or None
Truthy(v) == v # None /\ v # <<>>

\* dict.get(key, default)
GetOr(d, k, default) == IF k \in DOMAIN d THEN d[k] ELSE default

\* dict.get(key)
Get(d, k) == GetOr(d, k, None)

\* sub in s
Contains(s, sub) ==
    \E i \in 1..(Len(s) - Len(sub) + 1) : SubSeq(s, i, i + Len(sub) - 1) = sub

RECURSIVE Flatten(_)
Flatten(ss) == IF Len(ss) = 0 THEN <<>> ELSE Head(ss) \o Flatten(Tail(ss))

----------------------------------------------------------------------------
(* Literals of the source                                                  *)

Https == <<"h","t","t","p","s",":">>
Slash == <<"/">>
SlashSlash == <<"/","/">>
\* "https://foreignfortune.com/"
FFOrigin == <<"h","t","t","p","s",":","/","/","f","o","r","e","i","g","n",
              "f","o","r","t","u","n","e",".","c","o","m","/">>
\* "https://www.traderjoes.com"
base_url == <<"h","t","t","p","s",":","/","/","w","w","w",".","t","r","a",
              "d","e","r","j","o","e","s",".","c","o","m">>
\* "https://www.traderjoes.com/home/products/category/"
TJCategory == base_url \o <<"/","h","o","m","e","/","p","r","o","d","u","c","t","s",
                            "/","c","a","t","e","g","o","r","y","/">>
\* "https://www.lechocolat-alainducasse.com/uk/"
LCOrigin == <<"h","t","t","p","s",":","/","/","w","w","w",".","l","e","c","h","o",
              "c","o","l","a","t","-","a","l","a","i","n","d","u","c","a","s","s",
              "e",".","c","o","m","/","u","k","/">>
\* "btn--disabled"
BtnDisabled == <<"b","t","n","-","-","d","i","s","a","b","l","e","d">>

----------------------------------------------------------------------------
(* Product extractors.  The rendered markup is modelled by what the        *)
(* selectors read from it: the sequence of product cards in document       *)
(* order, each card a record of the texts and attributes selected (None    *)
(* where the selector matches nothing).                                    *)

\* image_element.attrib.get('src', '')
SrcOf(card) == IF card.src = None THEN EmptyStr ELSE card.src

\* if image_url.startswith('//'): image_url = f"https:{image_url}"
NormalizeSchemeRelative(image_url) ==
    IF StartsWith(image_url, SlashSlash) THEN Https \o image_url ELSE image_url

\* if image_url.startswith('/'): image_url = f"{base_url}{image_url}"
NormalizeTraderJoes(image_url) ==
    IF StartsWith(image_url, Slash) THEN base_url \o image_url ELSE image_url

FFProduct(card) ==
    [title       |-> card.title,
     price       |-> card.price,
     description |-> None,
     image_url   |-> NormalizeSchemeRelative(SrcOf(card))]

extract_foreignfortune_products(html) ==
    [i \in 1..Len(html.cards) |-> FFProduct(html.cards[i])]

\* .get(default='').strip()
GetStripped(text) == Strip(IF text = None THEN EmptyStr ELSE text)

LCProduct(card) ==
    [title       |-> GetStripped(card.title),
     price       |-> GetStripped(card.price),
     description |-> Strip(GetStripped(card.subtitle) \o <<" ">>
                             \o GetStripped(card.weight)),
     image_url   |-> NormalizeSchemeRelative(SrcOf(card))]

extract_lechocolat_products(html) ==
    [i \in 1..Len(html.cards) |-> LCProduct(html.cards[i])]

TJProduct(card) ==
    [title     |-> card.title,
     price     |-> IF Truthy(card.price) THEN card.price ELSE card.noPriceText,
     weight    |-> card.weight,
     image_url |-> NormalizeTraderJoes(SrcOf(card))]

extract_traderjoes_products(html) ==
    [i \in 1..Len(html.cards) |-> TJProduct(html.cards[i])]

----------------------------------------------------------------------------
(* Bounds of the model                                                     *)

MaxCards == 2       \* product cards on one sampled page (SpecExtract)
NumStartUrls == 2   \* start URLs of a site script (the scripts list 9, 4 and 7)
NumPages == 3       \* pages the foreignfortune site serves
MaxPages == 2       \* numbered pages of one traderjoes category
MaxScrolls == 1     \* times one traderjoes page grows when scrolled
MaxBatch == 2       \* records of a validated batch

Letters == <<"a", "b", "c", "d", "e", "f">>
Digits == <<"1", "2", "3", "4", "5", "6">>

\* sequences over S of length at most n
RECURSIVE SeqUpTo(_, _)
SeqUpTo(S, n) ==
    IF n = 0 THEN {<<>>}
    ELSE LET shorter == SeqUpTo(S, n - 1)
         IN  shorter \cup {Append(q, x) : q \in {r \in shorter : Len(r) = n - 1}, x \in S}

----------------------------------------------------------------------------
(* SpecExtract: an extractor applied to sampled markup                     *)

Sites == {"ff", "tj", "lc"}

SrcSamples ==
    { None,                                     \* no src attribute
      EmptyStr,
      <<"/","/","c","d","n">>,                  \* //cdn
      <<"/","i">>,                              \* /i
      <<"h","t","t","p",":","/","/","c">> }     \* http://c

TitleSamples == { None, <<"A">>, <<" ","B"," ">> }

FFCards ==
    [title : TitleSamples, price : {None, <<"$","1">>}, src : SrcSamples]

LCCards ==
    [title : {None, <<" ","B"," ">>}, subtitle : {None, <<"s">>},
     weight : {None, <<"1","g">>}, price : {<<"1"," ">>}, src : SrcSamples]

TJCards ==
    [title : {<<"A">>}, price : {None, <<"$","1">>}, noPriceText : {None, <<"x">>},
     weight : {None, <<"/","1">>}, src : SrcSamples]

CardsOf(s) ==
    CASE s = "ff" -> FFCards
      [] s = "lc" -> LCCards
      [] s = "tj" -> TJCards

RunIdle ==
    /\ site = "none" /\ web = <<>> /\ pc = "idle" /\ browser = "none"
    /\ closeCalls = 0 /\ openTabs = 0 /\ urlIdx = 0 /\ all_products = <<>>
    /\ written = <<>> /\ drv = <<>> /\ returned = <<>> /\ hist = <<>>
    /\ exc = FALSE

ExIdle == ex_site = "none" /\ ex_html = <<>> /\ ex_out = <<>>

ValIdle ==
    /\ products = <<>> /\ v_pc = "idle" /\ v_next = 0 /\ v_ran = <<>>
    /\ v_diag = <<>> /\ v_result = <<>>

InitExtract ==
    /\ ex_site \in Sites
    /\ ex_html \in [cards : SeqUpTo(CardsOf(ex_site), MaxCards)]
    /\ ex_out = <<>>
    /\ RunIdle /\ ValIdle

ExtractFF ==
    /\ ex_site = "ff" /\ ex_out = <<>>
    /\ ex_out' = <<extract_foreignfortune_products(ex_html)>>
    /\ UNCHANGED <<ex_site, ex_html, runVars, valVars>>

ExtractLC ==
    /\ ex_site = "lc" /\ ex_out = <<>>
    /\ ex_out' = <<extract_lechocolat_products(ex_html)>>
    /\ UNCHANGED <<ex_site, ex_html, runVars, valVars>>

ExtractTJ ==
    /\ ex_site = "tj" /\ ex_out = <<>>
    /\ ex_out' = <<extract_traderjoes_products(ex_html)>>
    /\ UNCHANGED <<ex_site, ex_html, runVars, valVars>>

NextExtract == ExtractFF \/ ExtractLC \/ ExtractTJ

SpecExtract == InitExtract /\ [][NextExtract]_vars

\* C8: every extractor emits one record per product card, in document
\* order, and a card whose image src begins with "//" gets the image_url
\* "https:" followed by that src.
C8_SchemeRelativeRewritten ==
    ex_out # <<>> =>
        /\ Len(ex_out[1]) = Len(ex_html.cards)
        /\ \A i \in 1..Len(ex_html.cards) :
              StartsWith(SrcOf(ex_html.cards[i]), SlashSlash) =>
                  ex_out[1][i].image_url = Https \o SrcOf(ex_html.cards[i])

----------------------------------------------------------------------------
(* Spec: one run of a site script                                          *)

\* the path of the i-th catalog page, standing for "collections/frontpage"...
Path(i) == <<Letters[i]>>

start_urls(s) ==
    [i \in 1..NumStartUrls |->
        CASE s = "ff" -> FFOrigin \o Path(i)
          [] s = "tj" -> TJCategory \o Path(i)
          [] s = "lc" -> LCOrigin \o Path(i)]

\* ---- the foreignfortune site: a page per URL, each with its product cards
\* and the anchors matched by 'ul.pagination li a.btn.btn--secondary.btn--narrow'

FFUrls == {FFOrigin \o Path(i) : i \in 1..NumPages}

HrefSamples == {Slash \o Path(i) : i \in 1..NumPages} \cup {Path(1)}

\* an anchor: whether it holds svg.icon-arrow-right, the class attribute of
\* its parent (None when it has none) and its href (None when it has none)
Back == [arrow |-> FALSE, parentClass |-> None, href |-> Slash \o Path(1)]
Fwd(h) == [arrow |-> TRUE, parentClass |-> <<"x">>, href |-> h]
FwdDisabled == [arrow |-> TRUE, parentClass |-> <<"x", " ">> \o BtnDisabled, href |-> None]
FwdNoHref == [arrow |-> TRUE, parentClass |-> None, href |-> None]

NavSamples ==
    { <<>>, <<Back>>, <<Back, FwdDisabled>>, <<FwdNoHref>> }
        \cup { <<Back, Fwd(h)>> : h \in HrefSamples }

RunCard(s, t) ==
    CASE s = "ff" -> [title |-> t, price |-> <<"$","1">>, src |-> <<"/","/","c">>]
      [] s = "lc" -> [title |-> t, subtitle |-> None, weight |-> None,
                      price |-> <<"1">>, src |-> <<"/","/","c">>]
      [] s = "tj" -> [title |-> t, price |-> <<"$","1">>, noPriceText |-> None,
                      weight |-> None, src |-> <<"/","i">>]

\* page i of the foreignfortune fixture carries one or two cards
FFCardsOf(i) == [k \in 1..(1 + (i % 2)) |-> RunCard("ff", <<Letters[i], Digits[k]>>)]

FFWebs ==
    { [u \in FFUrls |->
          LET i == CHOOSE j \in 1..NumPages : u = FFOrigin \o Path(j)
          IN  [cards |-> FFCardsOf(i), nav |-> f[i]]] : f \in [1..NumPages -> NavSamples] }

\* ---- scrape_all_pages of foreignfortune.py

\* lines 36-49: the scan of next_page_elements
RECURSIVE ScanNav(_)
ScanNav(elements) ==
    IF elements = <<>> THEN [kind |-> "none"]
    ELSE LET element == Head(elements)
         IN  IF element.arrow
             THEN IF Contains(IF element.parentClass = None THEN EmptyStr
                              ELSE element.parentClass, BtnDisabled)
                  THEN [kind |-> "disabled"]
                  ELSE IF element.href = None
                       THEN [kind |-> "KeyError"]
                       ELSE [kind |-> "next",
                             url  |-> FFOrigin \o
                                       (IF StartsWith(element.href, Slash)
                                        THEN DropFirst(element.href)
                                        ELSE element.href)]
             ELSE ScanNav(Tail(elements))

\* the assignment that would replace the accumulator by the last page
ExtendReplacing(acc, found) == found

\* line 31: all_products.extend(products)
Extend(acc, found) == acc \o found

\* the orchestrator's accumulator taking new results in front
MainExtendInFront(acc, found) == found \o acc

\* main, line 105: all_products.extend(products)
MainExtend(acc, found) == acc \o found

\* the visited check that never finds the URL
AlreadyVisitedNever(url, visited_urls) == FALSE

\* line 24: if next_page_url in visited_urls
AlreadyVisited(url, visited_urls) == url \in visited_urls

LastCall == hist[Len(hist)]

\* the running driver returns result to the orchestrator, which extends its
\* accumulator and goes on to the next start URL (main, lines 104-106)
DriverReturns(result) ==
    /\ returned' = Append(returned, result)
    /\ all_products' = MainExtend(all_products, result)
    /\ urlIdx' = urlIdx + 1
    /\ pc' = IF urlIdx = NumStartUrls THEN "write" ELSE "main_loop"
    /\ drv' = <<>>
    /\ exc' = FALSE

\* the running driver raises: the exception leaves the for loop of main
DriverRaises ==
    /\ exc' = TRUE
    /\ pc' = "except"
    /\ drv' = <<>>
    /\ UNCHANGED <<returned, all_products, urlIdx>>

InitRun ==
    /\ site \in Sites
    /\ web \in (IF site = "ff" THEN FFWebs ELSE {<<>>})
    /\ pc = "start"
    /\ browser = "none"
    /\ closeCalls = 0
    /\ openTabs = 0
    /\ urlIdx = 1
    /\ all_products = <<>>
    /\ written = <<>>
    /\ drv = <<>>
    /\ returned = <<>>
    /\ hist = <<>>
    /\ exc = FALSE
    /\ ExIdle /\ ValIdle

\* launch(...), before the try block
Launch ==
    /\ pc = "start"
    /\ \E ok \in BOOLEAN :
          IF ok THEN /\ browser' = "open"
                     /\ pc' = IF site = "lc" THEN "lc_loop" ELSE "main_loop"
                     /\ exc' = FALSE
                ELSE /\ browser' = browser
                     /\ pc' = "crashed"
                     /\ exc' = TRUE
    /\ UNCHANGED <<site, web, closeCalls, openTabs, urlIdx, all_products, written,
                   drv, returned, hist, exVars, valVars>>

\* main calls scrape_all_pages(url, browser): lines 19-21
FFCall ==
    /\ site = "ff" /\ pc = "main_loop"
    /\ drv' = [all_products  |-> <<>>,
               visited_urls  |-> {},
               next_page_url |-> start_urls("ff")[urlIdx]]
    /\ hist' = Append(hist, [start |-> start_urls("ff")[urlIdx], fetched |-> <<>>,
                             products |-> <<>>, status |-> "running"])
    /\ pc' = "ff_loop"
    /\ UNCHANGED <<site, web, browser, closeCalls, openTabs, urlIdx, all_products,
                   written, returned, exc, exVars, valVars>>

\* one iteration of the while loop, lines 23-52
FFIterate ==
    /\ site = "ff" /\ pc = "ff_loop"
    /\ LET url == drv.next_page_url
           n   == Len(hist)
       IN
       IF AlreadyVisited(url, drv.visited_urls)
       THEN /\ DriverReturns(drv.all_products)
            /\ hist' = [hist EXCEPT ![n].status = "returned"]
            /\ UNCHANGED openTabs
       ELSE \E fetched \in BOOLEAN :
            IF ~fetched
            THEN \* get_page_content raises between newPage and page.close
                 /\ DriverRaises
                 /\ openTabs' = openTabs + 1
                 /\ hist' = [hist EXCEPT ![n].fetched = Append(@, url),
                                         ![n].status = "fetch failed"]
            ELSE LET html     == web[url]
                     found    == extract_foreignfortune_products(html)
                     all      == Extend(drv.all_products, found)
                     scan     == ScanNav(html.nav)
                     h2       == [hist EXCEPT ![n].fetched = Append(@, url),
                                              ![n].products = all]
                 IN  /\ UNCHANGED openTabs
                     /\ CASE scan.kind = "next" ->
                               /\ drv' = [all_products  |-> all,
                                          visited_urls  |-> drv.visited_urls \cup {url},
                                          next_page_url |-> scan.url]
                               /\ hist' = h2
                               /\ UNCHANGED <<pc, returned, all_products, urlIdx, exc>>
                          [] scan.kind \in {"disabled", "none"} ->
                               /\ DriverReturns(all)
                               /\ hist' = [h2 EXCEPT ![n].status = "returned"]
                          [] scan.kind = "KeyError" ->
                               /\ DriverRaises
                               /\ hist' = [h2 EXCEPT ![n].status = "raised"]
    /\ UNCHANGED <<site, web, browser, closeCalls, written, exVars, valVars>>

\* ---- scrape_all_pages of traderjoes.py.  web is the live document of the
\* one tab: its scroll height and the control matched by
\* next_page_button_selector.

NextControls == {"absent", "disabled", "enabled"}

\* the document after a navigation whose waitForSelector succeeded
TJLanding == [height : {0}, next : NextControls]

\* the markup page.content() captures: page p of category u renders one or
\* two product items, or none when the list was re-rendered empty
TJMarkup(u, p, rendered) ==
    [cards |-> [k \in 1..(IF rendered THEN 1 + (p % 2) ELSE 0) |->
                    RunCard("tj", <<Letters[u], Digits[p], Digits[k]>>)]]

\* lines 19-30: newPage, setViewport, goto, waitForSelector, page_number = 1
TJCall ==
    /\ site = "tj" /\ pc = "main_loop"
    /\ \E ok \in BOOLEAN :
          IF ok
          THEN /\ web' \in TJLanding
               /\ drv' = [all_products |-> <<>>, page_number |-> 1, last_height |-> 0]
               /\ hist' = Append(hist, [start |-> start_urls("tj")[urlIdx],
                                        pages |-> <<>>, products |-> <<>>,
                                        page_number |-> 1, status |-> "running"])
               /\ pc' = "tj_scroll"
               /\ UNCHANGED <<returned, all_products, urlIdx, exc>>
          ELSE /\ DriverRaises
               /\ web' = web
               /\ hist' = Append(hist, [start |-> start_urls("tj")[urlIdx],
                                        pages |-> <<>>, products |-> <<>>,
                                        page_number |-> 0, status |-> "raised"])
    /\ openTabs' = openTabs + 1
    /\ UNCHANGED <<site, browser, closeCalls, written, exVars, valVars>>

\* lines 35-43: one scroll and the comparison of the heights; the document
\* either grew (lazily loaded content) or is stable
TJScroll ==
    /\ site = "tj" /\ pc = "tj_scroll"
    /\ \E outcome \in {"grew", "stable", "raise"} :
          CASE outcome = "grew" ->
                  /\ web.height < MaxScrolls
                  /\ web' = [web EXCEPT !.height = @ + 1]
                  /\ drv' = [drv EXCEPT !.last_height = web.height + 1]
                  /\ UNCHANGED <<pc, hist, returned, all_products, urlIdx, exc>>
            [] outcome = "stable" ->
                  /\ pc' = "tj_page"
                  /\ drv' = [drv EXCEPT !.last_height = web.height]
                  /\ UNCHANGED <<web, hist, returned, all_products, urlIdx, exc>>
            [] outcome = "raise" ->
                  /\ DriverRaises
                  /\ hist' = [hist EXCEPT ![Len(hist)].status = "raised"]
                  /\ web' = web
    /\ UNCHANGED <<site, browser, closeCalls, openTabs, written, exVars, valVars>>

\* the click that is attempted whatever the state of the control
ShouldClickAlways(next_button) == TRUE

\* line 62: not (not next_button or el.disabled)
ShouldClick(next_button) == next_button = "enabled"

\* the accumulator an except branch would hand back had it reset the list
AfterClickFailureReset(acc) == <<>>

\* lines 71-73: the except branch only breaks; all_products is untouched
AfterClickFailure(acc) == acc

\* lines 75-76: page.close(); return all_products
TJReturn(result, entry) ==
    /\ DriverReturns(result)
    /\ openTabs' = openTabs - 1
    /\ web' = web
    /\ hist' = [hist EXCEPT ![Len(hist)].pages = Append(@, entry),
                            ![Len(hist)].products = result,
                            ![Len(hist)].page_number = drv.page_number,
                            ![Len(hist)].status = "returned"]

\* lines 45-73: capture, extract, look for the next control, click
TJPage ==
    /\ site = "tj" /\ pc = "tj_page"
    /\ \E content \in {"markup", "no items", "empty", "raise"} :
       LET html     == TJMarkup(urlIdx, drv.page_number, content = "markup")
           found    == extract_traderjoes_products(html)
           all      == drv.all_products \o found
           entry(o) == [found   |-> IF o \in {"no content", "no products"}
                                    THEN <<>> ELSE found,
                        next    |-> IF o \in {"no content", "no products"}
                                    THEN "not queried" ELSE web.next,
                        outcome |-> o]
       IN
       CASE content = "raise" ->
               /\ DriverRaises
               /\ hist' = [hist EXCEPT ![Len(hist)].status = "raised"]
               /\ UNCHANGED <<web, openTabs>>
         [] content = "empty" ->
               TJReturn(drv.all_products, entry("no content"))
         [] content \in {"markup", "no items"} ->
               IF found = <<>>
               THEN TJReturn(drv.all_products, entry("no products"))
               ELSE IF ~ShouldClick(web.next)
               THEN TJReturn(all, entry("no next"))
               ELSE \E clicked \in BOOLEAN :
                    IF clicked /\ drv.page_number < MaxPages
                    THEN /\ web' \in TJLanding
                         /\ drv' = [all_products |-> all,
                                    page_number  |-> drv.page_number + 1,
                                    last_height  |-> drv.last_height]
                         /\ hist' = [hist EXCEPT
                                       ![Len(hist)].pages = Append(@, entry("clicked")),
                                       ![Len(hist)].products = all,
                                       ![Len(hist)].page_number = drv.page_number + 1]
                         /\ pc' = "tj_scroll"
                         /\ UNCHANGED <<openTabs, returned, all_products, urlIdx, exc>>
                    ELSE TJReturn(AfterClickFailure(all), entry("click failed"))
    /\ UNCHANGED <<site, browser, closeCalls, written, exVars, valVars>>

\* ---- scrape_pages of lechocolat.py, lines 75-81: one start URL

LCIterate ==
    /\ site = "lc" /\ pc = "lc_loop"
    /\ LET url == start_urls("lc")[urlIdx]
       IN  \E fetched \in BOOLEAN :
           IF fetched
           THEN \E n \in 0..MaxCards :
                LET html  == [cards |-> [k \in 1..n |->
                                 RunCard("lc", <<Letters[urlIdx], Digits[k]>>)]]
                    found == extract_lechocolat_products(html)
                IN  /\ all_products' = all_products \o found
                    /\ returned' = Append(returned, found)
                    /\ hist' = Append(hist, [start |-> url, fetched |-> <<url>>,
                                             products |-> found, status |-> "returned"])
                    /\ urlIdx' = urlIdx + 1
                    /\ pc' = IF urlIdx = NumStartUrls THEN "finally" ELSE "lc_loop"
                    /\ UNCHANGED <<openTabs, exc>>
           ELSE /\ exc' = TRUE
                /\ pc' = "finally"
                /\ openTabs' = openTabs + 1
                /\ hist' = Append(hist, [start |-> url, fetched |-> <<url>>,
                                         products |-> <<>>, status |-> "fetch failed"])
                /\ UNCHANGED <<all_products, returned, urlIdx>>
    /\ UNCHANGED <<site, web, browser, closeCalls, written, drv, exVars, valVars>>

\* json.dump(all_products, f): foreignfortune.py 109-110, traderjoes.py 140-141,
\* lechocolat.py 106-107
MainWrite ==
    /\ pc = "write"
    /\ \E ok \in BOOLEAN :
          IF ok THEN /\ written' = Append(written, all_products)
                     /\ pc' = IF site = "lc" THEN "done" ELSE "finally"
                     /\ exc' = FALSE
                ELSE /\ written' = written
                     /\ pc' = IF site = "lc" THEN "crashed" ELSE "except"
                     /\ exc' = TRUE
    /\ UNCHANGED <<site, web, browser, closeCalls, openTabs, urlIdx, all_products,
                   drv, returned, hist, exVars, valVars>>

\* an except branch that would leave the function
MainExceptLeaves ==
    /\ pc = "except"
    /\ exc' = FALSE
    /\ pc' = "done"
    /\ UNCHANGED <<site, web, browser, closeCalls, openTabs, urlIdx, all_products,
                   written, drv, returned, hist, exVars, valVars>>

\* except Exception as e: print(...)
MainExcept ==
    /\ pc = "except"
    /\ exc' = FALSE
    /\ pc' = "finally"
    /\ UNCHANGED <<site, web, browser, closeCalls, openTabs, urlIdx, all_products,
                   written, drv, returned, hist, exVars, valVars>>

\* finally: await browser.close(); in lechocolat.py the close is itself
\* guarded and scrape_pages then returns or lets the pending exception out
MainFinally ==
    /\ pc = "finally"
    /\ closeCalls' = closeCalls + 1
    /\ browser' = "closed"
    /\ \E closed \in BOOLEAN :
          IF site = "lc"
          THEN /\ pc' = IF exc THEN "crashed" ELSE "write"
               /\ exc' = exc
          ELSE /\ pc' = IF closed THEN "done" ELSE "crashed"
               /\ exc' = ~closed
    /\ UNCHANGED <<site, web, openTabs, urlIdx, all_products, written, drv,
                   returned, hist, exVars, valVars>>

Next ==
    \/ Launch \/ FFCall \/ FFIterate \/ TJCall \/ TJScroll \/ TJPage \/ LCIterate
    \/ MainWrite \/ MainExcept \/ MainFinally

Spec == InitRun /\ [][Next]_vars

\* every awaited step of a script completes or times out, so a run that can
\* take a step takes one
FairSpec == Spec /\ WF_vars(Next)

----------------------------------------------------------------------------
(* Properties of a site run                                                *)

Range(q) == {q[i] : i \in 1..Len(q)}

Finished == pc \in {"done", "crashed"}

\* the records in the output file (none when no file was written)
Delivered == IF written = <<>> THEN {} ELSE Range(written[Len(written)])

\* C1: in a foreignfortune run in which a fetch failed after records were
\* accumulated, every such record is delivered: the driver call returned
\* what it had accumulated and the output file holds it.
C1_FetchFailureKeepsRecords ==
    (/\ site = "ff" /\ Finished /\ hist # <<>>
     /\ LastCall.status = "fetch failed" /\ LastCall.products # <<>>) =>
        /\ Len(returned) = Len(hist)
        /\ \A i \in 1..Len(hist) : Range(hist[i].products) \subseteq Delivered

NoDuplicates(q) == \A i, j \in 1..Len(q) : i # j => q[i] # q[j]

FetchedOncePerCall ==
    site = "ff" =>
        /\ \A i \in 1..Len(hist) : NoDuplicates(hist[i].fetched)
        /\ pc = "ff_loop" => drv.visited_urls = Range(LastCall.fetched)

\* C2: whatever the links between the pages, a call of the link-following
\* driver fetches each URL at most once (every fetched URL is in
\* visited_urls, which is checked before each fetch) and the call ends.
C2_FetchOnceAndTerminate ==
    /\ []FetchedOncePerCall
    /\ (pc = "ff_loop") ~> (pc # "ff_loop")

\* a call came back to a page it had fetched and stopped there
C2_Witness ==
    /\ site = "ff"
    /\ \E i \in 1..Len(hist) :
          /\ hist[i].status = "returned"
          /\ Len(hist[i].fetched) >= 2
          /\ LET scan == ScanNav(web[hist[i].fetched[Len(hist[i].fetched)]].nav)
             IN  scan.kind = "next" /\ scan.url \in Range(hist[i].fetched)

\* the pages linked from u by enabled forward controls, when they form a
\* chain of distinct pages that ends at a disabled or missing forward control
RECURSIVE Chain(_, _)
Chain(u, before) ==
    LET scan == ScanNav(web[u].nav)
    IN  IF scan.kind \in {"disabled", "none"}
        THEN [ok |-> TRUE, pages |-> <<u>>]
        ELSE IF scan.kind = "next" /\ scan.url \notin (before \cup {u})
             THEN LET rest == Chain(scan.url, before \cup {u})
                  IN  [ok |-> rest.ok, pages |-> <<u>> \o rest.pages]
             ELSE [ok |-> FALSE, pages |-> <<u>>]

RecordsOfPages(urls) ==
    Flatten([k \in 1..Len(urls) |-> extract_foreignfortune_products(web[urls[k]])])

\* C3: on a chain of pages linked by enabled forward controls and ended by a
\* disabled forward control, or by a page without one, a call whose fetches
\* succeed returns the records of the pages of the chain, in page order,
\* each page's once, and fetches no page twice.
C3_ChainConcatenation ==
    site = "ff" =>
        \A i \in 1..Len(hist) :
            LET chain == Chain(hist[i].start, {})
            IN  (chain.ok /\ hist[i].status \notin {"running", "fetch failed"}) =>
                    /\ hist[i].status = "returned"
                    /\ hist[i].fetched = chain.pages
                    /\ returned[i] = RecordsOfPages(chain.pages)

\* a call returned over a chain of three pages ended by a disabled control
C3_Witness ==
    /\ site = "ff"
    /\ \E i \in 1..Len(hist) :
          /\ hist[i].status = "returned"
          /\ Len(hist[i].fetched) = 3
          /\ ScanNav(web[hist[i].fetched[3]].nav).kind = "disabled"
          /\ Len(returned[i]) >= 3

\* C5: a launched browser is closed exactly once before the run ends,
\* whichever way the run ends.
C5_BrowserClosedOnce ==
    /\ closeCalls <= 1
    /\ closeCalls = 1 <=> browser = "closed"
    /\ (Finished /\ browser # "none") => closeCalls = 1

\* a run that ended through the except branch, with the browser closed
C5_Witness ==
    /\ Finished /\ closeCalls = 1 /\ site = "tj"
    /\ hist # <<>> /\ LastCall.status = "raised"

FoundOfPages(call) == Flatten([k \in 1..Len(call.pages) |-> call.pages[k].found])

\* C6: when the click or a wait after it fails on page k of the scroll+click
\* driver, the loop ends there and the call returns the records of pages
\* 1..k, with page_number still k.
C6_ClickFailureKeepsRecords ==
    site = "tj" =>
        \A i \in 1..Len(hist) : \A k \in 1..Len(hist[i].pages) :
            hist[i].pages[k].outcome = "click failed" =>
                /\ k = Len(hist[i].pages)
                /\ hist[i].status = "returned"
                /\ returned[i] = FoundOfPages(hist[i])
                /\ hist[i].page_number = k

\* the click failed on the second page of a category
C6_Witness ==
    /\ site = "tj"
    /\ \E i \in 1..Len(hist) :
          /\ Len(hist[i].pages) = 2
          /\ hist[i].pages[2].outcome = "click failed"
          /\ Len(returned[i]) >= 2

\* C9: the start URLs are processed in list order; the output file is written
\* at most once, only after every start URL was processed, and holds the
\* concatenation of the per-URL results in that order.
C9_WriteOnceAfterAll ==
    /\ \A i \in 1..Len(hist) : hist[i].start = start_urls(site)[i]
    /\ Len(written) <= 1
    /\ written # <<>> =>
          /\ Len(returned) = NumStartUrls
          /\ Len(hist) = NumStartUrls
          /\ written[1] = Flatten(returned)

\* a file holding records of both start URLs was written
C9_Witness ==
    /\ written # <<>>
    /\ \A i \in 1..NumStartUrls : returned[i] # <<>>

Raised == {i \in 1..Len(hist) : hist[i].status = "raised"}

\* C10: the scroll+click driver clicks on a page only when the page yielded
\* records and its next control is present and enabled; a page without
\* records, or whose control is absent or disabled, ends the call without a
\* click: the tab is closed and the records of the pages seen are returned,
\* each page's once.
C10_AdvanceOnlyWhenEnabled ==
    site = "tj" =>
        /\ \A i \in 1..Len(hist) : \A k \in 1..Len(hist[i].pages) :
              LET page == hist[i].pages[k]
              IN  /\ k < Len(hist[i].pages) => page.outcome = "clicked"
                  /\ page.outcome = "clicked" =>
                        page.found # <<>> /\ page.next = "enabled"
                  /\ (page.found = <<>> \/ page.next \in {"absent", "disabled"}) =>
                        /\ page.outcome \in {"no content", "no products", "no next"}
                        /\ k = Len(hist[i].pages)
                        /\ hist[i].status = "returned"
                        /\ returned[i] = FoundOfPages(hist[i])
        /\ pc \notin {"tj_scroll", "tj_page"} => openTabs = Cardinality(Raised)
        /\ (pc \in {"tj_scroll", "tj_page"} /\ hist # <<>>) =>
              /\ Len(LastCall.pages) = drv.page_number - 1
              /\ drv.all_products = FoundOfPages(LastCall)

\* a call stopped at a disabled control on its second page
C10_Witness ==
    /\ site = "tj"
    /\ \E i \in 1..Len(hist) :
          /\ hist[i].status = "returned"
          /\ Len(hist[i].pages) = 2
          /\ hist[i].pages[2].next = "disabled"
          /\ hist[i].pages[2].found # <<>>

----------------------------------------------------------------------------
(* validation.py                                                           *)

\* the pound sign
Pound == "£"

\* "not available"
NotAvailableLower == <<"n", "o", "t", " ", "a", "v", "a", "i", "l", "a", "b", "l", "e">>
From == <<"f", "r", "o", "m">>
Http == <<"h", "t", "t", "p">>

IsDigit(c) == c \in {"0", "1", "2", "3", "4", "5", "6", "7", "8", "9"}

AllDigits(s) == \A i \in 1..Len(s) : IsDigit(s[i])

\* digits, digits "." digits, digits "." or "." digits
IsMantissa(s) ==
    \E k \in 0..Len(s) :
        LET whole == SubSeq(s, 1, k)
            rest  == SubSeq(s, k + 1, Len(s))
        IN  /\ AllDigits(whole)
            /\ \/ rest = <<>> /\ k > 0
               \/ /\ rest # <<>> /\ rest[1] = "."
                  /\ AllDigits(Tail(rest))
                  /\ (k > 0 \/ Len(rest) > 1)

\* nothing, or e, an optional sign and digits
IsExponent(s) ==
    \/ s = <<>>
    \/ /\ LowerChar(s[1]) = "e"
       /\ LET t == Tail(s)
              d == IF t # <<>> /\ t[1] \in {"+", "-"} THEN Tail(t) ELSE t
          IN  d # <<>> /\ AllDigits(d)

\* whether float(s) returns (it raises ValueError otherwise); digit-group
\* underscores are not modelled
IsFloat(s) ==
    LET t == Strip(s)
        u == IF t # <<>> /\ t[1] \in {"+", "-"} THEN Tail(t) ELSE t
    IN  \/ Lower(u) \in { <<"i","n","f">>, <<"n","a","n">>,
                         <<"i","n","f","i","n","i","t","y">> }
        \/ \E k \in 1..Len(u) :
              IsMantissa(SubSeq(u, 1, k)) /\ IsExponent(SubSeq(u, k + 1, Len(u)))

DigitValue(c) == CHOOSE d \in 0..9 : <<"0","1","2","3","4","5","6","7","8","9">>[d + 1] = c

RECURSIVE NatValue(_)
NatValue(s) == IF s = <<>> THEN 0 ELSE 10 * NatValue(SubSeq(s, 1, Len(s) - 1)) + DigitValue(s[Len(s)])

\* float(s) in hundredths, for an unsigned s without exponent and with at
\* most two decimals (the prices sampled below)
Hundredths(s) ==
    LET t     == Strip(s)
        dot   == IF \E i \in 1..Len(t) : t[i] = "."
                 THEN CHOOSE i \in 1..Len(t) : t[i] = "." ELSE Len(t) + 1
        whole == SubSeq(t, 1, dot - 1)
        frac  == SubSeq(t, dot + 1, Len(t))
    IN  100 * NatValue(whole)
          + (IF Len(frac) = 0 THEN 0
             ELSE IF Len(frac) = 1 THEN 10 * NatValue(frac) ELSE NatValue(frac))

\* the index of the first element of 1..n that satisfies Bad, 0 when none does
FirstBad(n, Bad(_)) ==
    IF \E i \in 1..n : Bad(i) THEN CHOOSE i \in 1..n : Bad(i) /\ \A j \in 1..(i - 1) : ~Bad(j)
    ELSE 0

Passed == [ok |-> TRUE]
Failed(check, i, what) == [ok |-> FALSE, check |-> check, product |-> i, what |-> what]

mandatory_fields == <<"title", "image_url">>

\* lines 20-26
validate_mandatory_fields(batch) ==
    LET Missing(product, field) == field \notin DOMAIN product \/ ~Truthy(product[field])
        Bad(i) == \E f \in 1..Len(mandatory_fields) : Missing(batch[i], mandatory_fields[f])
        i == FirstBad(Len(batch), Bad)
    IN  IF i = 0 THEN Passed
        ELSE Failed("mandatory_fields", i,
                    mandatory_fields[FirstBad(Len(mandatory_fields),
                        LAMBDA f : Missing(batch[i], mandatory_fields[f]))])

\* lines 39-41
CleanPrice(price) ==
    LET price_cleaned == Strip(Replace(Replace(Replace(price, <<"$">>, <<>>),
                                               <<Pound>>, <<>>), <<",">>, <<>>))
    IN  IF StartsWith(price_cleaned, From)
        THEN Strip(Replace(price_cleaned, From, <<>>))
        ELSE price_cleaned

\* lines 35-48
validate_price_format(batch) ==
    LET Bad(i) == LET price == Get(batch[i], "price")
                  IN  /\ price # None
                      /\ Lower(price) # NotAvailableLower
                      /\ ~IsFloat(CleanPrice(price))
        i == FirstBad(Len(batch), Bad)
    IN  IF i = 0 THEN Passed ELSE Failed("price_format", i, Get(batch[i], "price"))

\* lines 56-61
validate_image_url_format(batch) ==
    LET Bad(i) == ~StartsWith(GetOr(batch[i], "image_url", EmptyStr), Http)
        i == FirstBad(Len(batch), Bad)
    IN  IF i = 0 THEN Passed
        ELSE Failed("image_url_format", i, GetOr(batch[i], "image_url", EmptyStr))

\* the key that leaves the weight out
ProductKeyTitleOnly(title, weight) == [title |-> title]

\* lines 76-79: (title, weight) when weight is not None, else title; a tuple
\* equals no str, so the two kinds of key are kept apart
ProductKey(title, weight) ==
    IF weight # None THEN [title |-> title, weight |-> weight] ELSE [title |-> title]

\* line 73 as it would read with an empty-string default for a missing key
WeightOfDefaultEmpty(product) == GetOr(product, "weight", EmptyStr)

\* line 73: product.get('weight') is None for a missing key and for a null value
WeightOf(product) == Get(product, "weight")

\* lines 70-88: the loop over the batch from product i on, with seen_products
RECURSIVE UniqueLoop(_, _, _)
UniqueLoop(batch, i, seen_products) ==
    IF i > Len(batch) THEN Passed
    ELSE LET title       == Get(batch[i], "title")
             weight      == WeightOf(batch[i])
             product_key == ProductKey(title, weight)
         IN  IF product_key \in seen_products
             THEN Failed("unique_product_names", i, <<title, weight>>)
             ELSE UniqueLoop(batch, i + 1, seen_products \cup {product_key})

validate_unique_product_names(batch) == UniqueLoop(batch, 1, {})

\* lines 102-103
CleanSalePrice(price) == Strip(Replace(Replace(price, <<"$">>, <<>>), <<",">>, <<>>))

\* lines 96-110
validate_sale_price_less_than_or_equal_to_original_price(batch) ==
    LET Bad(i) ==
            LET original_price == Get(batch[i], "original_price")
                sale_price     == Get(batch[i], "sale_price")
            IN  /\ Truthy(original_price) /\ Truthy(sale_price)
                /\ \/ ~IsFloat(CleanSalePrice(original_price))
                   \/ ~IsFloat(CleanSalePrice(sale_price))
                   \/ Hundredths(CleanSalePrice(sale_price))
                        > Hundredths(CleanSalePrice(original_price))
        i == FirstBad(Len(batch), Bad)
    IN  IF i = 0 THEN Passed ELSE Failed("sale_price", i, Get(batch[i], "sale_price"))

\* lines 118-127
validate_variant_images_and_prices(batch) ==
    LET BadModel(model) == ~Truthy(Get(model, "image_url")) \/ ~Truthy(Get(model, "price"))
        Bad(i) == LET models == GetOr(batch[i], "models", <<>>)
                  IN  \E m \in 1..Len(models) : BadModel(models[m])
        i == FirstBad(Len(batch), Bad)
    IN  IF i = 0 THEN Passed
        ELSE LET models == batch[i].models
                 m      == FirstBad(Len(models), LAMBDA k : BadModel(models[k]))
             IN  Failed("variant_images_and_prices", i,
                        IF ~Truthy(Get(models[m], "image_url")) THEN "image" ELSE "price")

\* lines 135-140: the operands of the and chain, left to right
CheckOrder ==
    << "mandatory_fields", "price_format", "image_url_format", "unique_product_names",
       "sale_price", "variant_images_and_prices" >>

RunCheck(check, batch) ==
    CASE check = "mandatory_fields"          -> validate_mandatory_fields(batch)
      [] check = "price_format"              -> validate_price_format(batch)
      [] check = "image_url_format"          -> validate_image_url_format(batch)
      [] check = "unique_product_names"      -> validate_unique_product_names(batch)
      [] check = "sale_price" ->
            validate_sale_price_less_than_or_equal_to_original_price(batch)
      [] check = "variant_images_and_prices" -> validate_variant_images_and_prices(batch)

\* an and chain that would evaluate its next operand whatever the value
AndContinuesAlways(value) == TRUE

\* lines 135-140: a and b evaluates b only when a is true
AndContinues(value) == value

----------------------------------------------------------------------------
(* SpecVal: a Validation object over a sampled batch                       *)

With(d, k, v) == (k :> v) @@ d
Without(d, k) == [x \in DOMAIN d \ {k} |-> d[x]]

ImgOk == <<"h", "t", "t", "p", ":", "/", "/", "i">>
\* a record that passes every check
Plain(t) == ("title" :> t) @@ ("image_url" :> ImgOk) @@ ("price" :> <<"$", "1", "2", ".", "5", "0">>)
Model(image_url, price) == ("image_url" :> image_url) @@ ("price" :> price)

TA == <<"A">>
TB == <<"B">>
TC == <<"C">>

\* records as the scripts write them and as a hand-made batch may hold them;
\* every value is of the type the checks expect (str or None, a list of
\* dicts for models)
WeightSamples ==
    { Plain(t) : t \in {TA, TB} }
        \cup { With(Plain(t), "weight", w) : t \in {TA, TB}, w \in {None, <<"1">>, <<"2">>} }

MandatorySamples ==
    { Without(Plain(TA), "title"), With(Plain(TA), "title", EmptyStr),
      With(Plain(TC), "title", None), Without(Plain(TC), "image_url"),
      With(Plain(TC), "image_url", EmptyStr) }

PriceSamples ==
    { With(Plain(TC), "price", p) :
        p \in { None, <<"N", "o", "t", " ", "A", "v", "a", "i", "l", "a", "b", "l", "e">>, <<"f", "r", "o", "m", " ", "$", "9", ".", "9", "9">>, <<"£", "3", ",", "4", "0", "0">>, <<"c", "h", "e", "a", "p">> } }
        \cup { Without(Plain(TC), "price") }

ImageSamples == { With(Plain(TC), "image_url", <<"/", "a">>) }

SaleSamples ==
    { With(With(Plain(TC), "original_price", o), "sale_price", p) :
        o \in { <<"$", "1", "0", ".", "0", "0">> }, p \in { <<"$", "1", "2", ".", "0", "0">>, <<"$", "9", ".", "5">>, <<"x">> } }
        \cup { With(With(Plain(TC), "original_price", <<"$", "1", "2", ".", "0", "0">>), "sale_price", <<"$", "1", "0", ".", "0", "0">>),
               With(Plain(TC), "original_price", <<"$", "1", "0", ".", "0", "0">>) }

ModelSamples ==
    { With(Plain(TC), "models", ms) :
        ms \in { <<Model(EmptyStr, <<"$", "5">>)>>, <<Model(ImgOk, <<"$", "5">>)>>,
                 <<Model(ImgOk, <<"$", "5">>), Without(Model(ImgOk, None), "price")>> } }

\* a record that fails the checks 2, 3, 5 and 6 at once
SeveralSamples ==
    { With(With(With(With(With(Plain(TB), "price", <<"c", "h", "e", "a", "p">>), "image_url", <<"/", "a">>),
           "original_price", <<"$", "1", "0", ".", "0", "0">>), "sale_price", <<"$", "1", "2", ".", "0", "0">>),
           "models", <<Model(EmptyStr, <<"$", "5">>)>>) }

ProductSamples ==
    WeightSamples \cup MandatorySamples \cup PriceSamples \cup ImageSamples
        \cup SaleSamples \cup ModelSamples \cup SeveralSamples

InitVal ==
    /\ products \in SeqUpTo(ProductSamples, MaxBatch)
    /\ v_pc = "idle"
    /\ v_next = 0
    /\ v_ran = <<>>
    /\ v_diag = <<>>
    /\ v_result = <<>>
    /\ RunIdle /\ ExIdle

\* validate() is called
CallValidate ==
    /\ v_pc = "idle"
    /\ v_pc' = "validating"
    /\ v_next' = 1
    /\ UNCHANGED <<products, v_ran, v_diag, v_result, runVars, exVars>>

\* validate() evaluates the next operand of its and chain: the check prints
\* its diagnostic when it fails, and the chain goes on or yields its value
ValidateStep ==
    /\ v_pc = "validating"
    /\ LET check  == CheckOrder[v_next]
           result == RunCheck(check, products)
       IN  /\ v_ran' = Append(v_ran, check)
           /\ v_diag' = IF result.ok THEN v_diag ELSE Append(v_diag, result)
           /\ IF AndContinues(result.ok) /\ v_next < Len(CheckOrder)
              THEN /\ v_next' = v_next + 1
                   /\ UNCHANGED <<v_pc, v_result>>
              ELSE /\ v_result' = Append(v_result, result.ok)
                   /\ v_pc' = "validated"
                   /\ v_next' = v_next
    /\ UNCHANGED <<products, runVars, exVars>>

\* one check is called on its own
CallCheck ==
    /\ v_pc = "idle"
    /\ \E c \in 1..Len(CheckOrder) :
          LET result == RunCheck(CheckOrder[c], products)
          IN  /\ v_ran' = <<CheckOrder[c]>>
              /\ v_diag' = IF result.ok THEN <<>> ELSE <<result>>
              /\ v_result' = <<result.ok>>
    /\ v_pc' = "checked"
    /\ UNCHANGED <<products, v_next, runVars, exVars>>

NextVal == CallValidate \/ ValidateStep \/ CallCheck

SpecVal == InitVal /\ [][NextVal]_vars

\* the order the six checks are said to run in
SixChecks ==
    << "mandatory_fields", "price_format", "image_url_format", "unique_product_names",
       "sale_price", "variant_images_and_prices" >>

\* C4: validate() runs the six checks in the fixed order and stops at the
\* first that returns false: it returns true exactly when the six checks
\* return true, and otherwise only the first failing check has run last and
\* printed the one diagnostic.
C4_OrderedShortCircuit ==
    v_pc \in {"validating", "validated"} =>
        /\ Len(v_ran) <= Len(SixChecks)
        /\ v_ran = SubSeq(SixChecks, 1, Len(v_ran))
        /\ Len(v_diag) <= 1
        /\ v_pc = "validated" =>
              LET k == Len(v_ran)
              IN  /\ v_result = <<TRUE>> <=>
                        \A c \in 1..Len(SixChecks) : RunCheck(SixChecks[c], products).ok
                  /\ v_result = <<TRUE>> => k = Len(SixChecks) /\ v_diag = <<>>
                  /\ v_result # <<TRUE>> =>
                        /\ v_result = <<FALSE>>
                        /\ ~RunCheck(SixChecks[k], products).ok
                        /\ \A j \in 1..(k - 1) : RunCheck(SixChecks[j], products).ok
                        /\ v_diag = <<RunCheck(SixChecks[k], products)>>

\* validate() stopped at the price check of a batch that also fails later checks
C4_Witness ==
    /\ v_pc = "validated" /\ v_result = <<FALSE>>
    /\ v_ran = <<"mandatory_fields", "price_format">>
    /\ ~RunCheck("sale_price", products).ok
    /\ ~RunCheck("variant_images_and_prices", products).ok

\* the uniqueness key of two records is the same: same title, and the same
\* weight or no weight on both
SameKey(p, q) == Get(p, "title") = Get(q, "title") /\ Get(p, "weight") = Get(q, "weight")

Duplicates(j) == \E i \in 1..(j - 1) : SameKey(products[i], products[j])

C11_TabsClosedOnEveryExit ==
    /\ pc \notin {"tj_scroll", "tj_page"} => openTabs = 0
    /\ browser = "closed" => openTabs = 0

\* the records of a batch that have no weight key
AbsentWeight(batch) == { i \in 1..Len(batch) : "weight" \notin DOMAIN batch[i] }

\* the batch that differs only in record i, whose weight key is present and null
NullWeightAt(batch, i) == [batch EXCEPT ![i] = With(batch[i], "weight", None)]

====
